---- MODULE Spec2Model ----
(***************************************************************************)
(* Conway's Game of Life: the GPU engine of webgpu.py (double-buffered     *)
(* compute dispatch, staging readback, controller) and the CPU reference   *)
(* update of conway.py.                                                    *)
(*                                                                         *)
(* A flat grid (a numpy 1-D array, a device buffer of u32 words) is a      *)
(* function 0..n*n-1 -> Nat; a 2-D grid (a numpy array of shape (n, n)) is *)
(* a function 0..n-1 -> (0..n-1 -> Nat), indexed [row][column].            *)
(***************************************************************************)
EXTENDS Integers, Sequences, FiniteSets, TLC

(* ------------------------------ bounds --------------------------------- *)

\* Largest grid dimension for which every 0/1 grid is an input of the rule.
MaxN == 3
\* Largest grid dimension for which the sparse grids are inputs of the rule.
MaxSparseN == 5
\* Largest GRID_SIZE the engine is constructed with.
MaxSize == 2
\* Most live cells in a sparse grid and in a seed the engine draws.
MaxLive == 2
\* Cap on the generation counter (advance is not started beyond it).
MaxTicks == 3
\* Largest GRID_SIZE the engine is constructed with when the seed is a pattern.
MaxPatternN == 5
\* Largest N of a dispatch whose units run in every order.
MaxUnitsN == 3
\* Largest N of a dispatch whose units run in raster order.
MaxTileN == 17

(* --------------------------- program constants ------------------------- *)

\* @workgroup_size(8, 8): units per workgroup along each axis.
WorkgroupSize == 8

(* ------------------------------ VARIABLES ------------------------------ *)

VARIABLES
    \* GPUSimulationModel / GPUSimulationController / main of webgpu.py
    pc,              \* where the caller of the controller stands
    size,            \* GPUSimulationModel.size
    p,               \* RandomInit.p, in percent
    state,           \* GPUSimulationModel.state (the host snapshot)
    buffer_a,        \* contents of GPUSimulationModel.buffer_a, None before creation
    buffer_b,        \* contents of GPUSimulationModel.buffer_b, None before creation
    staging_buffer,  \* contents of GPUSimulationModel.staging_buffer
    staging_mapped,  \* whether the staging buffer is in the mapped state
    buffer_view,     \* the bytes returned by read_mapped, None outside update
    iteration,       \* GPUSimulationController.iteration
    is_running,      \* main's is_running
    \* history variables (not program state)
    seed,            \* the grid drawn by the last construction or reset
    ticks,           \* controller.update calls that returned since that draw
    last_op,         \* outcome of the last construction, reset or advance
    reset_at,        \* counter value the last reset found, -1 when last_op is not a reset
    binds,           \* counter value -> <<read, write>> buffer of its dispatch, since that draw
    gen_a,           \* generation index of buffer_a's contents, -1 for zero fill
    gen_b,           \* generation index of buffer_b's contents, -1 for zero fill
    generations,     \* the reference run from the same draw: generations[k + 1] is
                     \* ConwayUpdate.update applied k times to it, k = 0 .. ticks
    \* the update rule run on its own: ConwayUpdate.update and the WGSL kernel
    rule_n,          \* grid dimension N
    rule_in,         \* the input grid, 2-D
    rule_gpu,        \* out_state after one dispatch on the flattened input, None before
    rule_cpu,        \* ConwayUpdate.update(rule_in), None before
    \* one dispatch of the kernel taken unit by unit (global_invocation_id by id)
    unit_n,          \* the shader's N
    unit_bg,         \* the bind group set for the dispatch
    unit_mem,        \* the contents of buffer_a and buffer_b, by buffer name
    unit_done,       \* the units that have run to their return
    \* history variables of that dispatch (not program state)
    unit_mem0,       \* unit_mem when the dispatch began
    unit_loads,      \* the <<buffer, offset>> words loaded so far
    unit_stores,     \* the <<buffer, offset>> words stored so far
    unit_writers,    \* offset -> the units that stored at it
    \* main of conway.py
    loop_pc,         \* where main stands
    loop_is_running, \* main's is_running: "True" or "None"
    loop_state,      \* SimulationModel.state
    loop_n,          \* the grid's dimension
    loop_quit,       \* whether handle_events has handled a QUIT event (pygame.quit())
    loop_updates     \* controller.update calls that returned (history variable)

engine_vars == <<pc, size, p, state, buffer_a, buffer_b, staging_buffer, staging_mapped,
                 buffer_view, iteration, is_running,
                 seed, ticks, last_op, reset_at, binds, gen_a, gen_b, generations>>

rule_vars == <<rule_n, rule_in, rule_gpu, rule_cpu>>

unit_vars == <<unit_n, unit_bg, unit_mem, unit_done, unit_mem0, unit_loads, unit_stores,
               unit_writers>>

loop_vars == <<loop_pc, loop_is_running, loop_state, loop_n, loop_quit, loop_updates>>

vars == <<engine_vars, rule_vars, unit_vars, loop_vars>>

(* ------------------------------ grids ---------------------------------- *)

\* Python's None (an attribute not yet set): a value no grid equals.
None == [i \in {-1} |-> -1]

\* The index set of a flat grid of dimension n (negative n: size * size cells).
Cells(n) == 0 .. (n * n - 1)

\* np.zeros_like(new_state); also a freshly created device buffer.
Zeros(n) == [i \in Cells(n) |-> 0]

\* ndarray.reshape(size, size): row-major.
Reshape(flat, n) == [r \in 0 .. (n - 1) |-> [c \in 0 .. (n - 1) |-> flat[r * n + c]]]

\* ndarray.tobytes() of a 2-D array: row-major.
Flatten(grid, n) == [i \in Cells(n) |-> grid[i \div n][i % n]]

\* All sets of at most k elements of S.
RECURSIVE SubsetsUpTo(_, _)
SubsetsUpTo(S, k) ==
    IF k = 0 THEN {{}}
    ELSE LET P == SubsetsUpTo(S, k - 1)
         IN  P \cup {q \cup {x} : q \in P, x \in S}

\* The flat 0/1 grid whose live cells are L.
GridOf(n, L) == [i \in Cells(n) |-> IF i \in L THEN 1 ELSE 0]

\* The flat 0/1 grids of dimension n with at most k live cells.
SparseGrids(n, k) == {GridOf(n, L) : L \in SubsetsUpTo(Cells(n), k)}

\* Every flat 0/1 grid of dimension n.
AllGrids(n) == [Cells(n) -> {0, 1}]

\* The flat grid of dimension n whose live cells are the (x, y) of S, taken
\* modulo n; cell (x, y) is word x + y * n.
PatternGrid(n, S) == GridOf(n, {(c[1] % n) + (c[2] % n) * n : c \in S})

(* ------------------- the WGSL kernel (webgpu.py 19-64) ------------------ *)

\* WGSL's % on i32: the remainder of truncating division (sign of the dividend).
TruncRem(a, b) == IF a >= 0 THEN a % b ELSE 0 - ((0 - a) % b)

\* A wrap that clamps to the grid's edge instead of wrapping around it.
wrapClamped(a, b) == IF a < 0 THEN 0 ELSE IF a >= b THEN b - 1 ELSE a

\* A wrap that is the truncating remainder alone: a % b.
wrapTruncating(a, b) == TruncRem(a, b)

\* fn wrap(a: i32, b: i32) -> i32 { return ((a % b) + b) % b; }
wrap(a, b) == TruncRem(TruncRem(a, b) + b, b)

\* The eight (dx, dy) the two loops visit, in loop order (dy outer, dx inner),
\* (0, 0) skipped by `continue`.
Offsets ==
    <<<<-1, -1>>, <<0, -1>>, <<1, -1>>, <<-1, 0>>, <<1, 0>>, <<-1, 1>>, <<0, 1>>, <<1, 1>>>>

\* neighbor_idx = nx + ny * N for unit (x, y) and offset d = (dx, dy).
NeighborIdx(n, x, y, d) == wrap(x + d[1], n) + wrap(y + d[2], n) * n

RECURSIVE SumOver(_, _, _, _, _)
\* live_neighbors after the first k offsets: live_neighbors += in_state[neighbor_idx]
\* (eight u32 words of a 0/1 grid: the sum is at most 8 and never wraps).
SumOver(in_state, n, x, y, k) ==
    IF k = 0 THEN 0
    ELSE SumOver(in_state, n, x, y, k - 1) + in_state[NeighborIdx(n, x, y, Offsets[k])]

\* live_neighbors after the loops of unit (x, y).
LiveNeighbors(in_state, n, x, y) == SumOver(in_state, n, x, y, Len(Offsets))

\* A new_state that forgets the survival of a live cell with two live neighbours.
NewStateNoSurvivalOnTwo(cell_state, live_neighbors) ==
    IF live_neighbors = 3 THEN 1 ELSE 0

\* A new_state that forgets the survival of a live cell with three live neighbours.
NewStateNoSurvivalOnThree(cell_state, live_neighbors) ==
    IF cell_state = 1 /\ live_neighbors = 2 THEN 1
    ELSE IF cell_state = 0 /\ live_neighbors = 3 THEN 1
    ELSE 0

\* A kernel that stores the neighbour count as the cell's new state.
NewStateStoresCount(cell_state, live_neighbors) == live_neighbors

\* new_state of lines 55-61.
NewState(cell_state, live_neighbors) ==
    IF cell_state = 1 /\ (live_neighbors = 2 \/ live_neighbors = 3) THEN 1
    ELSE IF cell_state = 0 /\ live_neighbors = 3 THEN 1
    ELSE 0

\* The value unit (x, y) stores at out_state[x + y * N].
KernelCell(in_state, n, x, y) ==
    NewState(in_state[x + y * n], LiveNeighbors(in_state, n, x, y))

\* A workgroup count rounded down: size // 8.
WorkgroupsRoundedDown(n) == n \div 8

\* dispatch_workgroups((size + 7) // 8, (size + 7) // 8): workgroups per axis.
Workgroups(n) == (n + 7) \div 8

\* global_invocation_id.xy of every unit of the dispatch.
Units(n) ==
    (0 .. (Workgroups(n) * WorkgroupSize - 1)) \X (0 .. (Workgroups(n) * WorkgroupSize - 1))

\* The units that pass `if (x >= N || y >= N) return;`.
ActiveUnits(n) == {u \in Units(n) : ~(u[1] >= n \/ u[2] >= n)}

\* out_state after the units `active` have run: unit (x, y) has stored its cell at
\* out_state[x + y * N], line 62; the other words keep their contents.
DispatchUnits(active, in_state, out_state, n) ==
    [i \in DOMAIN out_state |->
        LET W == {u \in active : u[1] + u[2] * n = i}
        IN  IF W = {} THEN out_state[i]
            ELSE LET u == CHOOSE w \in W : TRUE
                 IN  KernelCell(in_state, n, u[1], u[2])]

\* out_state after the whole dispatch.
Dispatch(in_state, out_state, n) == DispatchUnits(ActiveUnits(n), in_state, out_state, n)

(* --------------- the CPU reference (conway.py 23-28) -------------------- *)

\* np.roll(a, shift, 0): row r of the result is row (r - shift) mod n of a.
Roll0(a, shift, n) == [r \in 0 .. (n - 1) |-> a[(r - shift) % n]]

\* np.roll(a, shift, 1): column c of the result is column (c - shift) mod n of a.
Roll1(a, shift, n) == [r \in 0 .. (n - 1) |-> [c \in 0 .. (n - 1) |-> a[r][(c - shift) % n]]]

\* The (i, j) of the generator, in its order: i, j in (-1, 0, 1) with i != 0 or j != 0.
Shifts ==
    <<<<-1, -1>>, <<-1, 0>>, <<-1, 1>>, <<0, -1>>, <<0, 1>>, <<1, -1>>, <<1, 0>>, <<1, 1>>>>

RECURSIVE SumRolls(_, _, _)
\* sum(...) of the first k rolled arrays, elementwise (sum starts from 0).
SumRolls(a, n, k) ==
    IF k = 0 THEN [r \in 0 .. (n - 1) |-> [c \in 0 .. (n - 1) |-> 0]]
    ELSE LET rolled == Roll1(Roll0(a, Shifts[k][1], n), Shifts[k][2], n)
             rest == SumRolls(a, n, k - 1)
         IN  [r \in 0 .. (n - 1) |-> [c \in 0 .. (n - 1) |-> rest[r][c] + rolled[r][c]]]

\* neighbors_count of line 25.
NeighborsCount(a, n) == SumRolls(a, n, Len(Shifts))

\* int & bool: the low bit of v when b holds, else 0.
AndBool(v, b) == IF b THEN v % 2 ELSE 0

\* bool | int: v with its low bit set when b holds.
OrBool(b, v) == IF b /\ v % 2 = 0 THEN v + 1 ELSE v

\* ConwayUpdate.update(current_state) on an n x n array.
ConwayUpdate(current_state, n) ==
    LET neighbors_count == NeighborsCount(current_state, n)
    IN  [r \in 0 .. (n - 1) |-> [c \in 0 .. (n - 1) |->
            OrBool(neighbors_count[r][c] = 3,
                   AndBool(current_state[r][c], neighbors_count[r][c] = 2))]]

(* ------------- the update rule run on its own (one input grid) ---------- *)

\* One dispatch of the kernel over the input, written to a zero-filled out_state.
RunKernel ==
    /\ rule_n > 0
    /\ rule_gpu = None
    /\ rule_gpu' = Dispatch(Flatten(rule_in, rule_n), Zeros(rule_n), rule_n)
    /\ UNCHANGED <<rule_n, rule_in, rule_cpu>>
    /\ UNCHANGED <<engine_vars, unit_vars, loop_vars>>

\* ConwayUpdate().update(rule_in), run on the same input once the kernel has run.
RunReference ==
    /\ rule_n > 0
    /\ rule_gpu # None
    /\ rule_cpu = None
    /\ rule_cpu' = ConwayUpdate(rule_in, rule_n)
    /\ UNCHANGED <<rule_n, rule_in, rule_gpu>>
    /\ UNCHANGED <<engine_vars, unit_vars, loop_vars>>

(* ------------------- the engine (webgpu.py 66-233) ---------------------- *)

\* The grid dimensions a caller may pass, the illegal ones (<= 0) included.
Sizes == {-1, 0} \cup (1 .. MaxSize)

\* The seed probabilities a caller may pass, in percent; main passes 0.75.
Probabilities == {-25, 75, 125}

\* The seeds of each grid dimension: the flat 0/1 grids with at most MaxLive ones.
Seeds == [n \in Sizes |-> SparseGrids(n, MaxLive)]

\* RandomInit.rule(size) of webgpu.py: np.random.randint(0, 2, size * size), any
\* flat 0/1 array of size * size cells (here: one of Seeds).
RandomInitRule(n) == Seeds[n]

\* The event lists pygame.event.get() may return to handle_events.
EventLists ==
    {<<>>, <<"OTHER">>, <<"SPACE">>, <<"QUIT">>, <<"SPACE", "QUIT">>, <<"QUIT", "SPACE">>}

\* A function with no entries: no dispatch recorded.
NoBinds == [t \in {} |-> <<"", "">>]

\* A bind_group_a_to_b created with buffer_a at both bindings.
bind_group_a_to_a == [in_state |-> "buffer_a", out_state |-> "buffer_a"]

\* bind_group_a_to_b: binding 0 (in_state) is buffer_a, binding 1 (out_state) is buffer_b.
bind_group_a_to_b == [in_state |-> "buffer_a", out_state |-> "buffer_b"]

\* A bind_group_b_to_a created with the entries of bind_group_a_to_b.
bind_group_b_to_a_Miswired == [in_state |-> "buffer_a", out_state |-> "buffer_b"]

\* bind_group_b_to_a: binding 0 (in_state) is buffer_b, binding 1 (out_state) is buffer_a.
bind_group_b_to_a == [in_state |-> "buffer_b", out_state |-> "buffer_a"]

\* An update that sets bind_group_a_to_b whatever the counter's parity.
BindGroupAlwaysAToB(it) == bind_group_a_to_b

\* An update whose bind group has buffer_a at both bindings (an in-place update).
BindGroupInPlace(it) == [in_state |-> "buffer_a", out_state |-> "buffer_a"]

\* The bind group update(iteration) sets: lines 138-141.
BindGroupFor(it) == IF it % 2 = 0 THEN bind_group_a_to_b ELSE bind_group_b_to_a

\* An update that copies the dispatch's source buffer to the staging buffer.
CopySourceSwapped(it) == IF it % 2 = 0 THEN "buffer_a" ELSE "buffer_b"

\* An update that copies buffer_b to the staging buffer whatever the counter's parity.
CopySourceAlwaysB(it) == "buffer_b"

\* The buffer update(iteration) copies to the staging buffer: lines 148-151.
CopySourceFor(it) == IF it % 2 = 0 THEN "buffer_b" ELSE "buffer_a"

\* The contents of the named device buffer.
Buf(name) == IF name = "buffer_a" THEN buffer_a ELSE buffer_b

\* The generation index held by the named device buffer.
Gen(name) == IF name = "buffer_a" THEN gen_a ELSE gen_b

\* f with t mapped to v.
Bind(f, t, v) == [x \in DOMAIN f \cup {t} |-> IF x = t THEN v ELSE f[x]]

\* Before main constructs anything.
InitEngine ==
    /\ pc = "new"
    /\ size = 0
    /\ p = 0
    /\ state = None
    /\ buffer_a = None
    /\ buffer_b = None
    /\ staging_buffer = None
    /\ staging_mapped = FALSE
    /\ buffer_view = None
    /\ iteration = 0
    /\ is_running = TRUE
    /\ seed = None
    /\ ticks = 0
    /\ last_op = "none"
    /\ reset_at = -1
    /\ binds = NoBinds
    /\ gen_a = -1
    /\ gen_b = -1
    /\ generations = <<>>

\* No rule run is in progress.
InitRuleIdle ==
    /\ rule_n = 0
    /\ rule_in = None
    /\ rule_gpu = None
    /\ rule_cpu = None

\* No dispatch is being taken unit by unit.
InitUnitsIdle ==
    /\ unit_n = 0
    /\ unit_bg = None
    /\ unit_mem = None
    /\ unit_done = {}
    /\ unit_mem0 = None
    /\ unit_loads = {}
    /\ unit_stores = {}
    /\ unit_writers = None

\* conway.py's main has not started.
InitLoopIdle ==
    /\ loop_pc = "none"
    /\ loop_is_running = "True"
    /\ loop_state = None
    /\ loop_n = 0
    /\ loop_quit = FALSE
    /\ loop_updates = 0

\* main, lines 219-225: RandomInit(p), GPUSimulationModel(size, ...), the controller.
Construct(sz, prob) ==
    /\ pc = "new"
    /\ \E g \in RandomInitRule(sz) :
          /\ state' = g
          /\ seed' = g
          /\ generations' = <<Reshape(g, sz)>>
    /\ size' = sz
    /\ p' = prob
    /\ iteration' = 0
    /\ pc' = "constructed"
    /\ last_op' = "constructed"
    /\ UNCHANGED <<buffer_a, buffer_b, staging_buffer, staging_mapped, buffer_view,
                   is_running, ticks, reset_at, binds, gen_a, gen_b>>
    /\ UNCHANGED <<rule_vars, unit_vars, loop_vars>>

\* controller.initialize() -> initialize_webgpu, lines 80-132. The three buffers
\* are created first (86-98); the shader module (const N: u32 = {size}u), the
\* pipeline and the bind groups follow, and the device rejects them for a
\* dimension <= 0 (a negative u32 literal, a zero-sized binding).
Initialize ==
    /\ pc = "constructed"
    /\ buffer_a' = state
    /\ buffer_b' = Zeros(size)
    /\ staging_buffer' = Zeros(size)
    /\ gen_a' = 0
    /\ gen_b' = -1
    /\ IF size <= 0
          THEN pc' = "init_failed" /\ last_op' = "init_failed"
          ELSE pc' = "idle" /\ last_op' = "init"
    /\ UNCHANGED <<size, p, state, staging_mapped, buffer_view, iteration, is_running,
                   seed, ticks, reset_at, binds, generations>>
    /\ UNCHANGED <<rule_vars, unit_vars, loop_vars>>

\* Whether handle_events returns False: a QUIT event is in the list.
Quits(evs) == \E i \in 1 .. Len(evs) : evs[i] = "QUIT"

\* Whether handle_events handles a SPACE key: one comes before any QUIT.
Resets(evs) ==
    \E i \in 1 .. Len(evs) : evs[i] = "SPACE" /\ \A j \in 1 .. (i - 1) : evs[j] # "QUIT"

\* A reset that leaves buffer_b as it is.
ModelResetKeepsB(g) ==
    /\ buffer_a' = g
    /\ buffer_b' = buffer_b
    /\ state' = g

\* A reset that does not assign self.state.
ModelResetKeepsState(g) ==
    /\ buffer_a' = g
    /\ buffer_b' = Zeros(size)
    /\ state' = state

\* GPUSimulationModel.reset, lines 160-164, drawing new_state = g.
ModelReset(g) ==
    /\ buffer_a' = g
    /\ buffer_b' = Zeros(size)
    /\ state' = g

\* A SPACE handler that leaves the counter as it is.
CounterKept == iteration' = iteration

\* The counter after a handled SPACE key: line 196.
CounterReset == iteration' = 0

\* controller.handle_events(), lines 189-197, on the event list evs; main calls it
\* only while is_running (line 229).
HandleEvents(evs) ==
    /\ pc = "idle"
    /\ is_running
    /\ is_running' = ~Quits(evs)
    /\ IF Resets(evs)
          THEN \E g \in RandomInitRule(size) :
                  /\ ModelReset(g)
                  /\ CounterReset
                  /\ seed' = g
                  /\ ticks' = 0
                  /\ last_op' = "reset"
                  /\ reset_at' = iteration
                  /\ binds' = NoBinds
                  /\ gen_a' = 0
                  /\ gen_b' = -1
                  /\ generations' = <<Reshape(g, size)>>
          ELSE UNCHANGED <<buffer_a, buffer_b, state, iteration, seed, ticks, last_op,
                           reset_at, binds, gen_a, gen_b, generations>>
    /\ UNCHANGED <<pc, size, p, staging_buffer, staging_mapped, buffer_view>>
    /\ UNCHANGED <<rule_vars, unit_vars, loop_vars>>

\* The device's work for the commands of update(it): the dispatch through the
\* bind group bg, then the copy of buffer src to the staging buffer.
Execute(bg, src) ==
    LET written == Dispatch(Buf(bg.in_state), Buf(bg.out_state), size)
        a == IF bg.out_state = "buffer_a" THEN written ELSE buffer_a
        b == IF bg.out_state = "buffer_b" THEN written ELSE buffer_b
    IN  /\ buffer_a' = a
        /\ buffer_b' = b
        /\ staging_buffer' = (IF src = "buffer_a" THEN a ELSE b)
        /\ gen_a' = (IF bg.out_state = "buffer_a" THEN Gen(bg.in_state) + 1 ELSE gen_a)
        /\ gen_b' = (IF bg.out_state = "buffer_b" THEN Gen(bg.in_state) + 1 ELSE gen_b)
        /\ binds' = Bind(binds, iteration, <<bg.in_state, bg.out_state>>)

\* controller.update() -> model.update(self.iteration), lines 135-153: the commands
\* are encoded and queue.submit accepts them. A submission that uses a buffer in
\* the mapped state is a validation error, so the staging buffer is unmapped here.
SubmitOk ==
    /\ pc = "idle"
    /\ iteration < MaxTicks
    /\ ~staging_mapped
    /\ Execute(BindGroupFor(iteration), CopySourceFor(iteration))
    /\ pc' = "submitted"
    /\ UNCHANGED <<size, p, state, staging_mapped, buffer_view, iteration, is_running,
                   seed, ticks, last_op, reset_at, generations>>
    /\ UNCHANGED <<rule_vars, unit_vars, loop_vars>>

\* A controller.update that catches the exception of queue.submit and goes on to
\* increment the counter.
SubmitRaisesSwallowed ==
    /\ pc = "idle"
    /\ iteration < MaxTicks
    /\ last_op' = "submit_failed"
    /\ reset_at' = -1
    /\ iteration' = iteration + 1
    /\ UNCHANGED <<pc, size, p, state, buffer_a, buffer_b, staging_buffer, staging_mapped,
                   buffer_view, is_running, seed, ticks, binds, gen_a, gen_b, generations>>
    /\ UNCHANGED <<rule_vars, unit_vars, loop_vars>>

\* Lines 135-153 when queue.submit raises (the device rejects the commands): the
\* exception leaves model.update and controller.update; nothing was executed.
SubmitRaises ==
    /\ pc = "idle"
    /\ iteration < MaxTicks
    /\ last_op' = "submit_failed"
    /\ reset_at' = -1
    /\ UNCHANGED <<pc, size, p, state, buffer_a, buffer_b, staging_buffer, staging_mapped,
                   buffer_view, iteration, is_running, seed, ticks, binds, gen_a, gen_b, generations>>
    /\ UNCHANGED <<rule_vars, unit_vars, loop_vars>>

\* Line 155: staging_buffer.map(READ) completes.
MapOk ==
    /\ pc = "submitted"
    /\ staging_mapped' = TRUE
    /\ pc' = "mapped"
    /\ UNCHANGED <<size, p, state, buffer_a, buffer_b, staging_buffer, buffer_view,
                   iteration, is_running, seed, ticks, last_op, reset_at, binds, gen_a, gen_b, generations>>
    /\ UNCHANGED <<rule_vars, unit_vars, loop_vars>>

\* Line 155 raises: the buffer stays unmapped and the exception leaves update.
MapRaises ==
    /\ pc = "submitted"
    /\ pc' = "idle"
    /\ last_op' = "map_failed"
    /\ reset_at' = -1
    /\ UNCHANGED <<size, p, state, buffer_a, buffer_b, staging_buffer, staging_mapped,
                   buffer_view, iteration, is_running, seed, ticks, binds, gen_a, gen_b, generations>>
    /\ UNCHANGED <<rule_vars, unit_vars, loop_vars>>

\* Line 156: buffer_view = staging_buffer.read_mapped().
ReadMappedOk ==
    /\ pc = "mapped"
    /\ buffer_view' = staging_buffer
    /\ pc' = "read"
    /\ UNCHANGED <<size, p, state, buffer_a, buffer_b, staging_buffer, staging_mapped,
                   iteration, is_running, seed, ticks, last_op, reset_at, binds, gen_a, gen_b, generations>>
    /\ UNCHANGED <<rule_vars, unit_vars, loop_vars>>

\* Line 156 raises: the exception leaves update before line 158, so the staging
\* buffer stays mapped.
ReadMappedRaises ==
    /\ pc = "mapped"
    /\ pc' = "idle"
    /\ last_op' = "read_failed"
    /\ reset_at' = -1
    /\ UNCHANGED <<size, p, state, buffer_a, buffer_b, staging_buffer, staging_mapped,
                   buffer_view, iteration, is_running, seed, ticks, binds, gen_a, gen_b, generations>>
    /\ UNCHANGED <<rule_vars, unit_vars, loop_vars>>

\* Line 157: self.state = np.frombuffer(buffer_view, uint32).reshape(size, size).
Interpret ==
    /\ pc = "read"
    /\ state' = Reshape(buffer_view, size)
    /\ pc' = "interpreted"
    /\ UNCHANGED <<size, p, buffer_a, buffer_b, staging_buffer, staging_mapped, buffer_view,
                   iteration, is_running, seed, ticks, last_op, reset_at, binds, gen_a, gen_b, generations>>
    /\ UNCHANGED <<rule_vars, unit_vars, loop_vars>>

\* Line 158: self.staging_buffer.unmap(); model.update returns.
Unmap ==
    /\ pc = "interpreted"
    /\ staging_mapped' = FALSE
    /\ buffer_view' = None
    /\ pc' = "unmapped"
    /\ UNCHANGED <<size, p, state, buffer_a, buffer_b, staging_buffer,
                   iteration, is_running, seed, ticks, last_op, reset_at, binds, gen_a, gen_b, generations>>
    /\ UNCHANGED <<rule_vars, unit_vars, loop_vars>>

\* The counter after controller.update: line 202.
CounterIncrement == iteration' = iteration + 1

\* controller.update, lines 201-203: the view draws model.state, the counter is
\* incremented, the clock ticks, and the call returns.
FinishUpdate ==
    /\ pc = "unmapped"
    /\ CounterIncrement
    /\ ticks' = ticks + 1
    /\ generations' = Append(generations, ConwayUpdate(generations[Len(generations)], size))
    /\ last_op' = "advance"
    /\ reset_at' = -1
    /\ pc' = "idle"
    /\ UNCHANGED <<size, p, state, buffer_a, buffer_b, staging_buffer, staging_mapped,
                   buffer_view, is_running, seed, binds, gen_a, gen_b>>
    /\ UNCHANGED <<rule_vars, unit_vars, loop_vars>>

\* main, line 233: controller.close() once handle_events has returned False.
Close ==
    /\ pc = "idle"
    /\ ~is_running
    /\ pc' = "closed"
    /\ UNCHANGED <<size, p, state, buffer_a, buffer_b, staging_buffer, staging_mapped,
                   buffer_view, iteration, is_running, seed, ticks, last_op, reset_at,
                   binds, gen_a, gen_b, generations>>
    /\ UNCHANGED <<rule_vars, unit_vars, loop_vars>>

(* --------------------------- specifications ----------------------------- *)

Init == InitEngine /\ InitRuleIdle /\ InitUnitsIdle /\ InitLoopIdle

Next ==
    \/ \E sz \in Sizes, prob \in Probabilities : Construct(sz, prob)
    \/ Initialize
    \/ \E evs \in EventLists : HandleEvents(evs)
    \/ SubmitOk
    \/ SubmitRaises
    \/ MapOk
    \/ MapRaises
    \/ ReadMappedOk
    \/ ReadMappedRaises
    \/ Interpret
    \/ Unmap
    \/ FinishUpdate
    \/ Close

\* The engine under any caller of the controller.
Spec == Init /\ [][Next]_vars

\* The inputs of the rule: every 0/1 grid up to dimension MaxN, and the sparse
\* grids (at most MaxLive live cells) up to dimension MaxSparseN.
InitRule ==
    /\ InitEngine
    /\ \/ \E n \in 1 .. MaxN : \E g \in AllGrids(n) :
             /\ rule_n = n
             /\ rule_in = Reshape(g, n)
       \/ \E n \in 1 .. MaxSparseN : \E g \in SparseGrids(n, MaxLive) :
             /\ rule_n = n
             /\ rule_in = Reshape(g, n)
    /\ rule_gpu = None
    /\ rule_cpu = None
    /\ InitUnitsIdle
    /\ InitLoopIdle

NextRule == RunKernel \/ RunReference

\* The update rule in its two forms on one input grid.
SpecRule == InitRule /\ [][NextRule]_vars

(* ----------- one dispatch taken unit by unit (webgpu.py 33-63) ---------- *)

\* The offsets of in_state that unit (x, y) loads: in_state[neighbor_idx] for the
\* eight offsets (line 51) and in_state[idx] (line 55).
UnitLoads(n, x, y) ==
    {NeighborIdx(n, x, y, Offsets[k]) : k \in 1 .. Len(Offsets)} \cup {x + y * n}

\* The position of unit u in raster order, w units per row of the dispatch.
Rank(u, w) == u[1] + u[2] * w

\* The device memory when update(it) dispatches on a grid g drawn at
\* construction: at counter 0 buffer_b is zero-filled, at counter 1 it holds
\* the result of the dispatch at counter 0.
DispatchStart(n, g, it) ==
    /\ unit_n = n
    /\ unit_bg = BindGroupFor(it)
    /\ unit_mem = [buffer_a |-> g,
                   buffer_b |-> IF it = 0 THEN Zeros(n) ELSE Dispatch(g, Zeros(n), n)]
    /\ unit_mem0 = unit_mem
    /\ unit_done = {}
    /\ unit_loads = {}
    /\ unit_stores = {}
    /\ unit_writers = [i \in Cells(n) |-> {}]

\* The invocation of main with global_invocation_id.xy = u, lines 33-63: it
\* returns at line 39 when out of range; otherwise it loads its neighbours and
\* its own cell from in_state and stores new_state at out_state[idx].
RunUnit(u) ==
    /\ unit_n > 0
    /\ u \in Units(unit_n) \ unit_done
    /\ unit_done' = unit_done \cup {u}
    /\ IF u[1] >= unit_n \/ u[2] >= unit_n
          THEN UNCHANGED <<unit_mem, unit_loads, unit_stores, unit_writers>>
          ELSE LET x == u[1]
                   y == u[2]
                   idx == x + y * unit_n
                   in_state == unit_mem[unit_bg.in_state]
               IN  /\ unit_mem' = [unit_mem EXCEPT ![unit_bg.out_state][idx] =
                                       KernelCell(in_state, unit_n, x, y)]
                   /\ unit_loads' = unit_loads \cup
                          {<<unit_bg.in_state, i>> : i \in UnitLoads(unit_n, x, y)}
                   /\ unit_stores' = unit_stores \cup {<<unit_bg.out_state, idx>>}
                   /\ unit_writers' = [unit_writers EXCEPT ![idx] = @ \cup {u}]
    /\ UNCHANGED <<unit_n, unit_bg, unit_mem0>>
    /\ UNCHANGED <<engine_vars, rule_vars, loop_vars>>

\* The units of the dispatch that return at line 39 and have not run yet.
PendingOutOfRange ==
    {v \in Units(unit_n) \ unit_done : v[1] >= unit_n \/ v[2] >= unit_n}

\* The units the device may run next when it runs them in any order: any unit
\* in range that has not run. The units out of range touch no buffer; they are
\* taken first, in raster order.
AnyOrder ==
    LET w == Workgroups(unit_n) * WorkgroupSize
        pending == PendingOutOfRange
    IN  IF pending = {} THEN Units(unit_n) \ unit_done
        ELSE {u \in pending : \A v \in pending : Rank(u, w) <= Rank(v, w)}

\* The unit the device runs next when it runs them in raster order.
RasterOrder ==
    LET w == Workgroups(unit_n) * WorkgroupSize
        k == Cardinality(unit_done)
    IN  {<<k % w, k \div w>>} \cap Units(unit_n)

\* update(0) and update(1) dispatching when the grid drawn at construction is
\* the three cells (0, 1), (1, 1), (2, 1), taken modulo N.
InitUnits ==
    /\ InitEngine
    /\ InitRuleIdle
    /\ InitLoopIdle
    /\ \E n \in 1 .. MaxUnitsN : \E it \in {0, 1} :
          DispatchStart(n, PatternGrid(n, {<<0, 1>>, <<1, 1>>, <<2, 1>>}), it)

NextUnits == \E u \in AnyOrder : RunUnit(u)

\* One dispatch, its units in every order.
SpecUnits == InitUnits /\ [][NextUnits]_vars

\* update(0) dispatching on the grid whose only live cell is (0, 0), for every
\* dimension up to MaxTileN.
InitTiles ==
    /\ InitEngine
    /\ InitRuleIdle
    /\ InitLoopIdle
    /\ \E n \in 1 .. MaxTileN : DispatchStart(n, GridOf(n, {0}), 0)

NextTiles == \E u \in RasterOrder : RunUnit(u)

\* One dispatch over one or more workgroups per axis, its units in raster order.
SpecTiles == InitTiles /\ [][NextTiles]_vars

(* ------------------- main of conway.py (lines 75-94) -------------------- *)

\* Python's truth value of is_running: True is truthy, None is falsy.
Truthy(v) == v = "True"

\* What SimulationController.handle_events returns, lines 62-65: the method has
\* no return statement, so None whatever the events.
HandleEventsReturn(evs) == "None"

\* main, lines 76-89: the model (its state drawn by RandomInit.rule, any 0/1
\* grid), the view and the controller are constructed; is_running = True.
InitLoop ==
    /\ InitEngine
    /\ InitRuleIdle
    /\ InitUnitsIdle
    /\ \E n \in 1 .. MaxSize : \E g \in AllGrids(n) :
          /\ loop_n = n
          /\ loop_state = Reshape(g, n)
    /\ loop_pc = "while"
    /\ loop_is_running = "True"
    /\ loop_quit = FALSE
    /\ loop_updates = 0

\* Line 90: while is_running.
LoopTest ==
    /\ loop_pc = "while"
    /\ loop_pc' = (IF Truthy(loop_is_running) THEN "handle_events" ELSE "close")
    /\ UNCHANGED <<loop_is_running, loop_state, loop_n, loop_quit, loop_updates>>
    /\ UNCHANGED <<engine_vars, rule_vars, unit_vars>>

\* Line 91: is_running = controller.handle_events(), the event list being evs;
\* a QUIT event in it calls pygame.quit() (lines 63-65).
LoopHandleEvents(evs) ==
    /\ loop_pc = "handle_events"
    /\ loop_quit' = (loop_quit \/ Quits(evs))
    /\ loop_is_running' = HandleEventsReturn(evs)
    /\ loop_pc' = "update"
    /\ UNCHANGED <<loop_state, loop_n, loop_updates>>
    /\ UNCHANGED <<engine_vars, rule_vars, unit_vars>>

\* Line 92: controller.update() (lines 67-70) returns: the model's state is
\* replaced by ConwayUpdate.update of it and drawn, the clock ticks.
LoopUpdate ==
    /\ loop_pc = "update"
    /\ loop_updates < MaxTicks
    /\ loop_state' = ConwayUpdate(loop_state, loop_n)
    /\ loop_updates' = loop_updates + 1
    /\ loop_pc' = "while"
    /\ UNCHANGED <<loop_is_running, loop_n, loop_quit>>
    /\ UNCHANGED <<engine_vars, rule_vars, unit_vars>>

\* Line 92 when pygame.quit() has been called: view.draw (line 69) may raise on
\* the display that was shut down, after model.update; the exception leaves main.
LoopUpdateRaises ==
    /\ loop_pc = "update"
    /\ loop_quit
    /\ loop_state' = ConwayUpdate(loop_state, loop_n)
    /\ loop_pc' = "raised"
    /\ UNCHANGED <<loop_is_running, loop_n, loop_quit, loop_updates>>
    /\ UNCHANGED <<engine_vars, rule_vars, unit_vars>>

\* Line 94: controller.close() after the loop.
LoopClose ==
    /\ loop_pc = "close"
    /\ loop_pc' = "closed"
    /\ UNCHANGED <<loop_is_running, loop_state, loop_n, loop_quit, loop_updates>>
    /\ UNCHANGED <<engine_vars, rule_vars, unit_vars>>

NextLoop ==
    \/ LoopTest
    \/ \E evs \in EventLists : LoopHandleEvents(evs)
    \/ LoopUpdate
    \/ LoopUpdateRaises
    \/ LoopClose

\* conway.py's main.
SpecLoop == InitLoop /\ [][NextLoop]_vars

(* -------- the engine when the seed drawn is a still life or a blinker ---- *)

\* The 2 x 2 block whose corner of least coordinates is (x, y).
Block(n, x, y) ==
    PatternGrid(n, {<<x, y>>, <<x + 1, y>>, <<x, y + 1>>, <<x + 1, y + 1>>})

\* The blinker centred on (x, y) with its three cells along x.
BlinkerH(n, x, y) == PatternGrid(n, {<<x - 1, y>>, <<x, y>>, <<x + 1, y>>})

\* The blinker centred on (x, y) with its three cells along y.
BlinkerV(n, x, y) == PatternGrid(n, {<<x, y - 1>>, <<x, y>>, <<x, y + 1>>})

\* The draws of RandomInit.rule(n) that are one block (n >= 4) or one blinker
\* along x (n >= 5), at every position of the grid.
PatternSeeds(n) ==
    {Block(n, x, y) : x, y \in 0 .. (n - 1)}
        \cup (IF n >= 5 THEN {BlinkerH(n, x, y) : x, y \in 0 .. (n - 1)} ELSE {})

\* main after lines 219-225 (the model, the view and the controller constructed)
\* when RandomInit.rule drew one of PatternSeeds.
InitPattern ==
    /\ \E n \in 4 .. MaxPatternN : \E g \in PatternSeeds(n) :
          /\ size = n
          /\ state = g
          /\ seed = g
          /\ generations = <<Reshape(g, n)>>
    /\ p = 75
    /\ pc = "constructed"
    /\ last_op = "constructed"
    /\ buffer_a = None
    /\ buffer_b = None
    /\ staging_buffer = None
    /\ staging_mapped = FALSE
    /\ buffer_view = None
    /\ iteration = 0
    /\ is_running = TRUE
    /\ ticks = 0
    /\ reset_at = -1
    /\ binds = NoBinds
    /\ gen_a = -1
    /\ gen_b = -1
    /\ InitRuleIdle
    /\ InitUnitsIdle
    /\ InitLoopIdle

\* initialize, then controller.update again and again, every call succeeding.
NextPattern ==
    \/ Initialize
    \/ SubmitOk
    \/ MapOk
    \/ ReadMappedOk
    \/ Interpret
    \/ Unmap
    \/ FinishUpdate

\* The engine run from a block or a blinker.
SpecPattern == InitPattern /\ [][NextPattern]_vars

(* ------------------------------- claims -------------------------------- *)

\* The 2-D grid of generation k of the reference run, k = 0 .. ticks.
Generation(k) == generations[k + 1]

\* The 2-D n x n grid whose only live cell is (0, 0).
SingleCell(n) == Reshape(GridOf(n, {0}), n)

\* C1: for every grid dimension N >= 1 and every N x N grid of 0/1 cells, the
\* out_state the kernel's dispatch produces, reshaped to N x N, equals the grid
\* ConwayUpdate.update returns, cell for cell.
C1_KernelEqualsReference ==
    (rule_gpu # None /\ rule_cpu # None) => Reshape(rule_gpu, rule_n) = rule_cpu

\* Both forms have run on a 3 x 3 grid in which a cell is born and a live cell
\* survives.
C1_Witness ==
    /\ rule_gpu # None
    /\ rule_cpu # None
    /\ rule_n = 3
    /\ \E r, c \in 0 .. 2 : rule_in[r][c] = 0 /\ rule_cpu[r][c] = 1
    /\ \E r, c \in 0 .. 2 : rule_in[r][c] = 1 /\ rule_cpu[r][c] = 1

\* C10: on an N x N grid, N >= 3, whose only live cell is (0, 0), the cell has 0
\* live neighbours, each of its 8 wrapped neighbours has exactly 1, and one
\* update step (the kernel's and the reference's) yields the all-dead grid.
C10_SingleCellDies ==
    (rule_n >= 3 /\ rule_in = SingleCell(rule_n)) =>
        LET flat == Flatten(rule_in, rule_n)
        IN  /\ LiveNeighbors(flat, rule_n, 0, 0) = 0
            /\ \A k \in 1 .. Len(Offsets) :
                  LiveNeighbors(flat, rule_n, wrap(Offsets[k][1], rule_n),
                                wrap(Offsets[k][2], rule_n)) = 1
            /\ NeighborsCount(rule_in, rule_n)[0][0] = 0
            /\ rule_gpu # None => rule_gpu = Zeros(rule_n)
            /\ rule_cpu # None => rule_cpu = Reshape(Zeros(rule_n), rule_n)

\* Both forms have run on the single live cell at (0, 0) of a grid larger than 3 x 3.
C10_Witness ==
    /\ rule_n > 3
    /\ rule_in = SingleCell(rule_n)
    /\ rule_gpu # None
    /\ rule_cpu # None

\* C2: after a seed grid G and k >= 1 advances that returned (no reset since G
\* was drawn), model.state is the update rule applied exactly k times to G.
C2_SnapshotIsKthGeneration ==
    (pc = "idle" /\ ticks >= 1) => state = Generation(ticks)

\* Two advances have returned and the snapshot differs from the seed.
C2_Witness ==
    /\ pc = "idle"
    /\ last_op = "advance"
    /\ ticks = 2
    /\ size = 2
    /\ state # Reshape(seed, size)

\* C3: the dispatch of every advance at counter t reads buffer_a and writes
\* buffer_b when t is even, reads buffer_b and writes buffer_a when t is odd; so
\* consecutive advances swap the roles and the dispatch at t + 2 reads the buffer
\* the dispatch at t read.
C3_ParityAlternation ==
    /\ \A t \in DOMAIN binds :
          binds[t] = IF t % 2 = 0 THEN <<"buffer_a", "buffer_b">>
                     ELSE <<"buffer_b", "buffer_a">>
    /\ \A t \in DOMAIN binds :
          (t + 1) \in DOMAIN binds =>
              binds[t + 1] = <<binds[t][2], binds[t][1]>>
    /\ \A t \in DOMAIN binds :
          (t + 2) \in DOMAIN binds => binds[t + 2][1] = binds[t][1]

\* The dispatches at counters 0, 1 and 2 have run.
C3_Witness == {0, 1, 2} \subseteq DOMAIN binds

\* C4: the counter equals the number of advances that returned since the last
\* construction or reset; it is 0 after a reset, whatever it was; and no step
\* other than a reset decreases it.
C4_Counter ==
    /\ [](iteration = ticks /\ (last_op = "reset" => iteration = 0))
    /\ [][last_op' # "reset" => iteration' >= iteration]_vars

\* A reset has just found the counter at 2 or more and left it at 0.
C4_Witness == last_op = "reset" /\ reset_at >= 2 /\ iteration = 0

\* C5: after a reset, at any counter value, the engine is as after a fresh
\* construction with the same grid: buffer_a holds the grid, buffer_b is all
\* zero, the counter is 0, the snapshot is the grid, and the first dispatch that
\* follows reads buffer_a.
C5_ResetIsFresh ==
    /\ (pc = "idle" /\ last_op \in {"init", "reset"}) =>
          /\ buffer_a = seed
          /\ buffer_b = Zeros(size)
          /\ iteration = 0
          /\ state = seed
          /\ BindGroupFor(iteration).in_state = "buffer_a"
    /\ 0 \in DOMAIN binds => binds[0][1] = "buffer_a"

\* A reset has just been performed at an odd counter value, buffer_b holding
\* live cells before it.
C5_Witness ==
    /\ pc = "idle"
    /\ last_op = "reset"
    /\ reset_at % 2 = 1
    /\ seed # Zeros(size)

\* C6: after advances that returned, at counter t >= 1, the buffer the next
\* dispatch reads holds generation t and the other buffer, which that dispatch
\* writes, holds generation t - 1; the two never hold the same generation index.
C6_OneAuthoritativeBuffer ==
    (pc = "idle" /\ last_op = "advance" /\ iteration >= 1) =>
        LET bg == BindGroupFor(iteration)
        IN  /\ Gen(bg.in_state) = iteration
            /\ Gen(bg.out_state) = iteration - 1
            /\ gen_a # gen_b
            /\ Buf(bg.in_state) = Flatten(Generation(iteration), size)
            /\ Buf(bg.out_state) = Flatten(Generation(iteration - 1), size)

\* Two advances have returned from a seed with live cells: buffer_a holds
\* generation 2 and buffer_b generation 1.
C6_Witness ==
    /\ pc = "idle"
    /\ last_op = "advance"
    /\ iteration = 2
    /\ gen_a = 2
    /\ gen_b = 1
    /\ seed # Zeros(size)

\* C7: a controller.update whose queue.submit raises ends with the exception at
\* the caller and changes nothing: not the counter, not a word of either buffer
\* or of the staging buffer, not the snapshot.
C7_SubmitFailureIsAtomic ==
    [][(pc = "idle" /\ pc' = "idle" /\ last_op' = "submit_failed") =>
          /\ iteration' = iteration
          /\ ticks' = ticks
          /\ buffer_a' = buffer_a
          /\ buffer_b' = buffer_b
          /\ staging_buffer' = staging_buffer
          /\ state' = state]_vars

\* A submission has failed at a counter value of 1 or more.
C7_Witness == pc = "idle" /\ last_op = "submit_failed" /\ iteration >= 1

\* C8: after a readback failure at counter t (map or read_mapped raised after the
\* submission) the counter is still t, the snapshot is still generation t, and
\* the retried advance can be submitted and so return generation t + 1.
C8_RetryAfterReadbackFailure ==
    (pc = "idle" /\ last_op \in {"map_failed", "read_failed"}) =>
        /\ iteration = ticks
        /\ state = (IF ticks = 0 THEN seed ELSE Generation(ticks))
        /\ ENABLED SubmitOk

\* C9: a configuration with grid dimension <= 0 or seed probability outside
\* [0, 1] is rejected at initialize, and no device buffer is ever created for it.
C9_InvalidConfigurationRejected ==
    (pc # "new" /\ (size <= 0 \/ p < 0 \/ p > 100)) =>
        /\ pc \in {"constructed", "init_failed"}
        /\ buffer_a = None
        /\ buffer_b = None
        /\ staging_buffer = None

\* C11: when the seed is one 2 x 2 block on a grid of dimension N >= 4, at any
\* position (across the edges included), every advance leaves the grid as it
\* is: the snapshot after k >= 1 returned advances is the seed, and neither
\* buffer ever holds anything but the seed (or buffer_b its initial zero fill).
C11_BlockIsStill ==
    \A x, y \in 0 .. (size - 1) :
        (size >= 4 /\ seed = Block(size, x, y)) =>
            /\ state \in {seed, Reshape(seed, size)}
            /\ (pc = "idle" /\ ticks >= 1) => state = Reshape(seed, size)
            /\ buffer_a \in {None, seed}
            /\ buffer_b \in {None, Zeros(size), seed}
            /\ gen_b >= 1 => buffer_b = seed

\* Two advances (one per buffer parity) have returned from a block that lies
\* across both edges of a 4 x 4 grid.
C11_Witness ==
    /\ pc = "idle"
    /\ ticks = 2
    /\ size = 4
    /\ seed = Block(4, 3, 3)
    /\ state = Reshape(seed, 4)

\* C12: when the seed is one blinker along x on a grid of dimension N >= 5, the
\* snapshot after k >= 1 returned advances is the blinker along y on the same
\* centre when k is odd and the seed when k is even; it equals the seed iff k is
\* even.
C12_BlinkerOscillates ==
    \A x, y \in 0 .. (size - 1) :
        (size >= 5 /\ seed = BlinkerH(size, x, y) /\ pc = "idle" /\ ticks >= 1) =>
            /\ ticks % 2 = 1 => state = Reshape(BlinkerV(size, x, y), size)
            /\ ticks % 2 = 0 => state = Reshape(seed, size)
            /\ (state = Reshape(seed, size)) <=> (ticks % 2 = 0)

\* Two advances have returned from a blinker centred on a corner cell, so that
\* it lies across the edges, and the snapshot is the seed again.
C12_Witness ==
    /\ pc = "idle"
    /\ ticks = 2
    /\ size = 5
    /\ seed = BlinkerH(5, 0, 0)
    /\ state = Reshape(seed, 5)

\* C13: within one dispatch no unit loads a word that a unit stores (loads go
\* to the buffer bound as in_state, stores to the other buffer), no two units
\* store at the same offset, and in every order of the units each stored word is
\* the kernel's value on the contents in_state had when the dispatch began: the
\* completed dispatch leaves the same out_state whatever the order.
C13_UnitsOrderInsensitive ==
    unit_n > 0 =>
        LET rd == unit_bg.in_state
            wr == unit_bg.out_state
        IN  /\ unit_loads \cap unit_stores = {}
            /\ \A l \in unit_loads : l[1] = rd
            /\ \A s \in unit_stores : s[1] = wr /\ s[1] # rd
            /\ \A i \in Cells(unit_n) : Cardinality(unit_writers[i]) <= 1
            /\ unit_mem[rd] = unit_mem0[rd]
            /\ \A i \in Cells(unit_n) :
                  unit_mem[wr][i] =
                      IF unit_writers[i] = {} THEN unit_mem0[wr][i]
                      ELSE KernelCell(unit_mem0[rd], unit_n, i % unit_n, i \div unit_n)
            /\ unit_done = Units(unit_n) =>
                  unit_mem[wr] = Dispatch(unit_mem0[rd], unit_mem0[wr], unit_n)

\* A dispatch from buffer_b to buffer_a on a 3 x 3 grid is complete and has
\* changed buffer_a.
C13_Witness ==
    /\ unit_n = 3
    /\ unit_done = Units(3)
    /\ unit_bg = bind_group_b_to_a
    /\ unit_mem.buffer_a # unit_mem0.buffer_a

\* C14: the dispatch has (N + 7) // 8 = ceil(N / 8) workgroups of 8 x 8 units per
\* axis; every cell (x, y), 0 <= x, y < N, is the id of exactly one unit; the
\* word at offset x + y * N of the write buffer is stored by that unit and by no
\* other; and the units whose x or y is >= N store nothing.
C14_TileCoverage ==
    unit_n > 0 =>
        LET n == unit_n
            w == Workgroups(n)
            in_range == {u \in unit_done : u[1] < n /\ u[2] < n}
        IN  /\ w * WorkgroupSize >= n
            /\ (w - 1) * WorkgroupSize < n
            /\ (0 .. (n - 1)) \X (0 .. (n - 1)) \subseteq Units(n)
            /\ \A i \in Cells(n) : unit_writers[i] \subseteq {<<i % n, i \div n>>}
            /\ \A u \in in_range : unit_writers[u[1] + u[2] * n] = {u}
            /\ unit_stores = {<<unit_bg.out_state, u[1] + u[2] * n>> : u \in in_range}
            /\ Cardinality(unit_stores) = Cardinality(in_range)
            /\ unit_done = Units(n) =>
                  /\ \A i \in Cells(n) : unit_writers[i] = {<<i % n, i \div n>>}
                  /\ unit_mem[unit_bg.out_state] =
                         Dispatch(unit_mem0[unit_bg.in_state], unit_mem0[unit_bg.out_state], n)

\* Every unit of the 2 x 2 workgroups dispatched for N = 9 has run: each of the
\* 81 words has been stored once, the other 175 units stored nothing.
C14_Witness ==
    /\ unit_n = 9
    /\ Workgroups(9) = 2
    /\ unit_done = Units(9)
    /\ Cardinality(unit_done) = 256
    /\ Cardinality(unit_stores) = 81

\* C15: for every cell (x, y), 0 <= x, y < N, and every offset (dx, dy) of
\* {-1, 0, 1}^2 but (0, 0) (the eight the loops visit), wrap gives
\* (x + dx) mod N and (y + dy) mod N, the index loaded is nx + ny * N and lies in
\* 0 .. N*N - 1, a cell on an edge loads from the opposite edge, and no unit
\* has loaded a word outside in_state.
C15_ToroidalIndexing ==
    unit_n > 0 =>
        LET n == unit_n
        IN  /\ {Offsets[k] : k \in 1 .. Len(Offsets)} =
                   ({-1, 0, 1} \X {-1, 0, 1}) \ {<<0, 0>>}
            /\ \A a \in -1 .. n :
                  /\ wrap(a, n) = a % n
                  /\ wrap(a, n) \in 0 .. (n - 1)
            /\ wrap(-1, n) = n - 1
            /\ wrap(n, n) = 0
            /\ \A x, y \in 0 .. (n - 1) : \A k \in 1 .. Len(Offsets) :
                  LET i == NeighborIdx(n, x, y, Offsets[k])
                  IN  /\ i = ((x + Offsets[k][1]) % n) + ((y + Offsets[k][2]) % n) * n
                      /\ i \in Cells(n)
            /\ \A l \in unit_loads : l[1] = unit_bg.in_state /\ l[2] \in Cells(n)

\* On a 9 x 9 grid the unit of the corner cell (8, 8) has run and has loaded
\* word 0, the cell (0, 0) of the opposite corner.
C15_Witness ==
    /\ unit_n = 9
    /\ <<8, 8>> \in unit_done
    /\ NeighborIdx(9, 8, 8, <<1, 1>>) = 0
    /\ <<unit_bg.in_state, 0>> \in unit_loads

\* C16: whenever no advance is in progress (after initialize, after every
\* advance that returned, after every reset) model.state holds, cell for cell,
\* the contents of buffer_a when the counter is even and of buffer_b when it is
\* odd; after an advance at counter t it is the buffer that the dispatch at t
\* wrote. (model.state is flat until the first readback after a draw, N x N
\* after it.)
C16_SnapshotIsAuthoritativeBuffer ==
    pc = "idle" =>
        LET auth == IF iteration % 2 = 0 THEN buffer_a ELSE buffer_b
        IN  /\ ticks = 0 => state = auth
            /\ ticks >= 1 => state = Reshape(auth, size)
            /\ last_op = "advance" =>
                  /\ (iteration - 1) \in DOMAIN binds
                  /\ state = Reshape(Buf(binds[iteration - 1][2]), size)

\* One advance has returned: the counter is odd, the snapshot is buffer_b's
\* contents, which differ from buffer_a's, the buffer that advance read.
C16_Witness ==
    /\ pc = "idle"
    /\ last_op = "advance"
    /\ iteration = 1
    /\ state = Reshape(buffer_b, size)
    /\ buffer_b # buffer_a

\* C17: no step of an advance at counter t (the submission and its device work,
\* the map, the read, the interpretation, the unmap, the return; or the
\* exception that ends it) changes a word of the buffer the dispatch at t
\* reads, nor the grid's dimension.
C17_ReadBufferFrame ==
    [][(/\ pc \in {"idle", "submitted", "mapped", "read", "interpreted", "unmapped"}
        /\ (pc # "idle" \/ pc' = "submitted" \/ last_op' = "submit_failed")
        /\ last_op' # "reset") =>
            /\ BindGroupFor(iteration).in_state = "buffer_a" => buffer_a' = buffer_a
            /\ BindGroupFor(iteration).in_state = "buffer_b" => buffer_b' = buffer_b
            /\ size' = size]_vars

\* The advance at counter 1 has returned: it read buffer_b, which still holds
\* what the advance at counter 0 wrote, and wrote buffer_a, which has changed.
C17_Witness ==
    /\ pc = "idle"
    /\ last_op = "advance"
    /\ iteration = 2
    /\ buffer_b = Flatten(Generation(1), size)
    /\ buffer_a # seed

\* C18: the snapshot is taken from the staging buffer only while it is mapped
\* (after the map that follows the submission), and the staging buffer is
\* unmapped whenever no advance is in progress, so that the next advance
\* submits its copy into an unmapped buffer.
C18_StagingDiscipline ==
    /\ pc \in {"mapped", "read", "interpreted"} => staging_mapped
    /\ pc \in {"submitted", "unmapped"} => ~staging_mapped
    /\ pc = "idle" => ~staging_mapped

\* C19: every word of buffer_a and of buffer_b and every cell of model.state is
\* 0 or 1, in every state. (model.state is N x N from the first readback after
\* a draw on, flat before.)
C19_CellsAreZeroOrOne ==
    /\ buffer_a # None => \A i \in DOMAIN buffer_a : buffer_a[i] \in {0, 1}
    /\ buffer_b # None => \A i \in DOMAIN buffer_b : buffer_b[i] \in {0, 1}
    /\ staging_buffer # None => \A i \in DOMAIN staging_buffer : staging_buffer[i] \in {0, 1}
    /\ state # None =>
          IF ticks >= 1 \/ pc \in {"interpreted", "unmapped"}
          THEN \A r \in DOMAIN state : \A c \in DOMAIN state[r] : state[r][c] \in {0, 1}
          ELSE \A i \in DOMAIN state : state[i] \in {0, 1}

\* Two advances have returned and both buffers and the snapshot hold live cells.
C19_Witness ==
    /\ pc = "idle"
    /\ last_op = "advance"
    /\ ticks = 2
    /\ buffer_a # Zeros(size)
    /\ buffer_b # Zeros(size)
    /\ state = Reshape(buffer_a, size)

\* C20: in conway.py's main, while no QUIT event has been handled,
\* handle_events leaves is_running truthy, so that controller.update runs on
\* every iteration; the loop is left (controller.close is reached) only after
\* a QUIT event has been handled.
C20_LoopRunsUntilQuit ==
    /\ (loop_pc \in {"update", "while"} /\ ~loop_quit) => Truthy(loop_is_running)
    /\ loop_pc \in {"close", "closed"} => loop_quit

====
